---- MODULE Spec2Model ----
(***************************************************************************)
(* Model of the Fresh Eats client UI (src/src/App.js, src/src/index.js):   *)
(* configuration resolution at module load, the initialization/auth        *)
(* effect, the Firestore listener effect, the snapshot-to-view-state       *)
(* reducer and the render dispatch of renderProductList.                   *)
(***************************************************************************)
EXTENDS Integers, Sequences, FiniteSets, TLC

\* ------------------------------------------------------------------------
\* Bounds of the model
\* ------------------------------------------------------------------------

\* largest number of documents in one snapshot
MaxDocs == 2

\* largest number of auth-state callbacks suspended in signInAnonymously
MaxPending == 1

\* ------------------------------------------------------------------------
\* JavaScript values
\* ------------------------------------------------------------------------

Null == "<null>"

Undefined == "<undefined>"

JsTrue == "bool:true"

JsFalse == "bool:false"

\* JavaScript truthiness of the values that occur in the model
Truthy(v) == v \notin {Null, Undefined, JsFalse, ""}

\* UTF-16 code units of the strings that occur as category names
CodeUnits(s) ==
  CASE s = "All"           -> <<65, 108, 108>>
    [] s = "Ales"          -> <<65, 108, 101, 115>>
    [] s = "Starters"      -> <<83, 116, 97, 114, 116, 101, 114, 115>>
    [] s = "Uncategorized" -> <<85, 110, 99, 97, 116, 101, 103, 111, 114, 105, 122, 101, 100>>
    [] OTHER               -> <<>>

RECURSIVE LexLess(_, _)
\* u < v in the order of code-unit sequences
LexLess(u, v) ==
  IF v = <<>> THEN FALSE
  ELSE IF u = <<>> THEN TRUE
  ELSE IF Head(u) < Head(v) THEN TRUE
  ELSE IF Head(u) > Head(v) THEN FALSE
  ELSE LexLess(Tail(u), Tail(v))

\* the default comparison of Array.prototype.sort on strings
StrLess(a, b) == LexLess(CodeUnits(a), CodeUnits(b))

RECURSIVE InsertSorted(_, _)
\* x placed behind every element that is not greater than it (stable)
InsertSorted(sorted, x) ==
  IF sorted = <<>> THEN <<x>>
  ELSE IF StrLess(x, Head(sorted)) THEN <<x>> \o sorted
  ELSE <<Head(sorted)>> \o InsertSorted(Tail(sorted), x)

RECURSIVE SortStrings(_)
\* Array.prototype.sort() without a comparator
SortStrings(s) ==
  IF s = <<>> THEN <<>>
  ELSE InsertSorted(SortStrings(SubSeq(s, 1, Len(s) - 1)), s[Len(s)])

Range(s) == {s[i] : i \in DOMAIN s}

RECURSIVE SetValues(_)
\* [...new Set(s)]: the first occurrence of every value, in order
SetValues(s) ==
  IF s = <<>> THEN <<>>
  ELSE LET front == SetValues(SubSeq(s, 1, Len(s) - 1))
           x == s[Len(s)]
       IN IF x \in Range(front) THEN front ELSE Append(front, x)

\* Array.prototype.map over the category field
MapCategory(list) == [i \in DOMAIN list |-> list[i].category]

\* ------------------------------------------------------------------------
\* Inputs: documents, snapshots, injected globals
\* ------------------------------------------------------------------------

CategoryValues == {Undefined, "", "Ales", "All", "Starters"}

\* the fields of a document that the component reads: an available product
\* of an ordinary category, an unavailable one of a category that sorts
\* before "All", an available one whose category is literally "All", an
\* available one without a category, and one with an empty category and no
\* available field
DocData ==
  { [category |-> "Starters", available |-> JsTrue],
    [category |-> "Ales",     available |-> JsFalse],
    [category |-> "All",      available |-> JsTrue],
    [category |-> Undefined,  available |-> JsTrue],
    [category |-> "",         available |-> Undefined] }

\* { id: doc.id, ...doc.data() } for the i-th document of a snapshot
Product(i, data) == [id |-> i, category |-> data.category, available |-> data.available]

\* the mapped document lists of the snapshots of at most MaxDocs documents;
\* a query without orderBy delivers them ordered by document id
Snapshots ==
  UNION {{[i \in 1 .. n |-> Product(i, d[i])] : d \in [1 .. n -> DocData]} : n \in 0 .. MaxDocs}

AvailableValues == {JsTrue, JsFalse, Undefined}

\* every combination of the two fields
AllDocData == [category : CategoryValues, available : AvailableValues]

\* the mapped document lists of at most MaxDocs documents over AllDocData
ProductLists ==
  UNION {{[i \in 1 .. n |-> Product(i, d[i])] : d \in [1 .. n -> AllDocData]} : n \in 0 .. MaxDocs}

\* values of the injected __firebase_config: not injected, empty, not JSON,
\* and three JSON texts
ConfigBlobs == {Undefined, "", "{bad", "null", "{}", "{\"projectId\":\"demo\"}"}

\* values of the injected __app_id
InjectedAppIds == {Undefined, "tenant-1"}

\* the combinations of the two injected globals the model starts from
InjectedGlobals ==
  { <<Undefined, Undefined>>,
    <<"", "tenant-1">>,
    <<"{bad", "tenant-1">>,
    <<"null", "tenant-1">>,
    <<"{}", Undefined>>,
    <<"{\"projectId\":\"demo\"}", Undefined>>,
    <<"{\"projectId\":\"demo\"}", "tenant-1">> }

\* ------------------------------------------------------------------------
\* Module-level setup (App.js lines 34-64)
\* ------------------------------------------------------------------------

\* the built-in object; kind stands for the object's identity
FALLBACK_FIREBASE_CONFIG == [kind |-> "FALLBACK_FIREBASE_CONFIG", projectId |-> "mock-project-id"]

DEFAULT_APP_ID == "fresh-eats-admin-dev"

\* JSON.parse throws a SyntaxError on this text
JsonParseThrows(text) == text = "{bad"

\* the value JSON.parse returns for a text it accepts
JsonParse(text) ==
  CASE text = "null" -> [kind |-> "null", projectId |-> Undefined]
    [] text = "{}"   -> [kind |-> "parsed", projectId |-> Undefined]
    [] OTHER         -> [kind |-> "parsed", projectId |-> "demo"]

\* const appId = typeof __app_id !== 'undefined' ? __app_id : DEFAULT_APP_ID
ResolveAppId(injected) == IF injected # Undefined THEN injected ELSE DEFAULT_APP_ID

\* the catch block of lines 53-55 left empty: firebaseConfig stays undefined
ResolveConfig_CatchAssignsNothing(blob) ==
  IF blob # Undefined /\ Truthy(blob)
    THEN IF JsonParseThrows(blob)
           THEN [kind |-> "undefined", projectId |-> Undefined]
           ELSE JsonParse(blob)
    ELSE FALLBACK_FIREBASE_CONFIG

\* the try/catch that assigns firebaseConfig
ResolveConfig(blob) ==
  IF blob # Undefined /\ Truthy(blob)
    THEN IF JsonParseThrows(blob) THEN FALLBACK_FIREBASE_CONFIG ELSE JsonParse(blob)
    ELSE FALLBACK_FIREBASE_CONFIG

getProductCollectionPath(id) ==
  CASE id = DEFAULT_APP_ID -> "/artifacts/fresh-eats-admin-dev/public/data/products"
    [] id = "tenant-1"     -> "/artifacts/tenant-1/public/data/products"
    [] OTHER               -> "/artifacts/?/public/data/products"

\* ------------------------------------------------------------------------
\* Messages passed to setError
\* ------------------------------------------------------------------------

MsgConfigInvalid == "Initialization Failed: Firebase configuration is missing or invalid."

MsgInitError == "Initialization Error: <e.message>"

MsgFetchFailed == "Data fetch failed: <e.message>. Please verify Firestore rules."

MsgRealtime == "Real-time data error: <e.message>. Please verify Firestore rules."

InitMessages == {MsgConfigInvalid, MsgInitError}

SubscriptionMessages == {MsgFetchFailed, MsgRealtime}

\* the call of the initialization sequence that throws, if any
ThrowPoints == {"none", "initializeApp", "getFirestore", "getAuth"}

\* ------------------------------------------------------------------------
\* State
\* ------------------------------------------------------------------------

VARIABLES
  injectedConfig,   \* __firebase_config
  injectedAppId,    \* __app_id
  firebaseConfig,   \* module-level firebaseConfig
  appId,            \* module-level appId
  db,               \* TRUE when the module-level db holds a Firestore handle
  products,         \* useState([])
  loading,          \* useState(true)
  error,            \* useState(null)
  isAuthReady,      \* useState(false)
  categories,       \* useState([])
  activeCategory,   \* useState('All')
  phase,            \* "init" before the first commit, "mounted", "unmounted"
  authListening,    \* an onAuthStateChanged listener is registered
  pendingSignIn,    \* auth callbacks suspended at await signInAnonymously
  authErrorLogged,  \* console.error("Anonymous Auth Error:", e) has run
  openSubs,         \* onSnapshot subscriptions opened and not unsubscribed
  snapCleanup,      \* the last run of the listener effect returned a cleanup
  effDeps,          \* [isAuthReady, error] seen by the last run of that effect
  subPath,          \* collection path of the subscription opened last
  lastSnapshot,     \* <<docs>> of the last snapshot the callback transformed
  lateSetCalls      \* state setters called after the component was torn down

vars == <<injectedConfig, injectedAppId, firebaseConfig, appId, db, products, loading,
          error, isAuthReady, categories, activeCategory, phase, authListening,
          pendingSignIn, authErrorLogged, openSubs, snapCleanup, effDeps, subPath,
          lastSnapshot, lateSetCalls>>

\* const isFallback = firebaseConfig === FALLBACK_FIREBASE_CONFIG
isFallback == firebaseConfig.kind = "FALLBACK_FIREBASE_CONFIG"

Init ==
  /\ \E g \in InjectedGlobals : injectedConfig = g[1] /\ injectedAppId = g[2]
  /\ firebaseConfig = ResolveConfig(injectedConfig)
  /\ appId = ResolveAppId(injectedAppId)
  /\ db = FALSE
  /\ products = <<>>
  /\ loading = TRUE
  /\ error = Null
  /\ isAuthReady = FALSE
  /\ categories = <<>>
  /\ activeCategory = "All"
  /\ phase = "init"
  /\ authListening = FALSE
  /\ pendingSignIn = 0
  /\ authErrorLogged = FALSE
  /\ openSubs = 0
  /\ snapCleanup = FALSE
  /\ effDeps = <<FALSE, Null>>
  /\ subPath = Null
  /\ lastSnapshot = <<>>
  /\ lateSetCalls = 0

\* ------------------------------------------------------------------------
\* View-model reducer (App.js lines 130-139 and 158-169)
\* ------------------------------------------------------------------------

\* the filter of line 134 written as p.available !== false
AvailableProducts_NotFalse(productList) ==
  SelectSeq(productList, LAMBDA p : p.available # JsFalse)

\* the available filter of line 134 left out
AvailableProducts_NoFilter(productList) == productList

\* productList.filter(p => p.available)
AvailableProducts(productList) == SelectSeq(productList, LAMBDA p : Truthy(p.available))

\* ['All', ...new Set(productList.map(p => p.category).filter(Boolean))].sort()
UniqueCategories(productList) ==
  SortStrings(<<"All">> \o SetValues(SelectSeq(MapCategory(productList), Truthy)))

\* products.filter(product => activeCategory === 'All' || product.category === activeCategory)
FilterByCategory(list, active) ==
  SelectSeq(list, LAMBDA product : active = "All" \/ product.category = active)

\* the reduce callback putting the product in front of its group
GroupStep_Prepends(acc, product) ==
  LET category == IF Truthy(product.category) THEN product.category ELSE "Uncategorized"
  IN [k \in DOMAIN acc \cup {category} |->
        IF k = category
          THEN (IF k \in DOMAIN acc THEN <<product>> \o acc[k] ELSE <<product>>)
          ELSE acc[k]]

\* one step of the reduce callback
GroupStep(acc, product) ==
  LET category == IF Truthy(product.category) THEN product.category ELSE "Uncategorized"
  IN [k \in DOMAIN acc \cup {category} |->
        IF k = category
          THEN (IF k \in DOMAIN acc THEN Append(acc[k], product) ELSE <<product>>)
          ELSE acc[k]]

RECURSIVE GroupByCategory(_)
\* filteredProducts.reduce(..., {})
GroupByCategory(list) ==
  IF list = <<>> THEN [k \in {} |-> <<>>]
  ELSE GroupStep(GroupByCategory(SubSeq(list, 1, Len(list) - 1)), list[Len(list)])

filteredProducts == FilterByCategory(products, activeCategory)

productsGroupedByCategory == GroupByCategory(filteredProducts)

\* the error branch of renderProductList tested before the loading branch
RenderState_ErrorBeforeLoading ==
  IF Truthy(error) THEN "Error"
  ELSE IF loading THEN "Loading"
  ELSE IF Len(products) = 0 THEN "Empty"
  ELSE "Populated"

\* the branch renderProductList takes
RenderState ==
  IF loading THEN "Loading"
  ELSE IF Truthy(error) THEN "Error"
  ELSE IF Len(products) = 0 THEN "Empty"
  ELSE "Populated"

\* categories.length > 1 && renderCategoryFilter()
FilterShown == Len(categories) > 1

\* ------------------------------------------------------------------------
\* Initialization and auth effect (App.js lines 83-113)
\* ------------------------------------------------------------------------

\* the first statement of the effect: !firebaseConfig || !firebaseConfig.projectId
ConfigInvalid(cfg) == cfg.kind = "null" \/ ~Truthy(cfg.projectId)

\* One run of the effect body with the call `thr` throwing: the message given
\* to setError (Null: setError is not called), whether setIsAuthReady(true) is
\* called synchronously, whether db was assigned, and whether the listener
\* was registered (and its unsubscribe returned as the cleanup).
InitEffect(cfg, thr) ==
  IF ConfigInvalid(cfg)
    THEN [err |-> MsgConfigInvalid, ready |-> TRUE, dbSet |-> FALSE, listener |-> FALSE]
  ELSE IF thr \in {"initializeApp", "getFirestore"}
    THEN [err |-> MsgInitError, ready |-> TRUE, dbSet |-> FALSE, listener |-> FALSE]
  ELSE IF thr = "getAuth"
    THEN [err |-> MsgInitError, ready |-> TRUE, dbSet |-> TRUE, listener |-> FALSE]
  ELSE [err |-> Null, ready |-> FALSE, dbSet |-> TRUE, listener |-> TRUE]

\* ------------------------------------------------------------------------
\* Firestore listener effect (App.js lines 116-154)
\* ------------------------------------------------------------------------

\* line 122 using appId whether or not the fallback configuration is active
dataAppId_IgnoresFallback == appId

\* const dataAppId = isFallback ? DEFAULT_APP_ID : appId
dataAppId == IF isFallback THEN DEFAULT_APP_ID ELSE appId

\* onSnapshot called ahead of the guard of line 118, whose early return then
\* leaves the subscription without a cleanup
SnapshotEffectBody_SubscribesBeforeGuard(ready, dbHandle, err) ==
  IF ~ready \/ ~dbHandle \/ Truthy(err)
    THEN [opened |-> IF dbHandle THEN 1 ELSE 0, cleanup |-> FALSE,
          path |-> getProductCollectionPath(IF isFallback THEN DEFAULT_APP_ID ELSE appId)]
    ELSE [opened |-> 1, cleanup |-> TRUE,
          path |-> getProductCollectionPath(IF isFallback THEN DEFAULT_APP_ID ELSE appId)]

\* One run of the effect body with the values of its closure: the number of
\* subscriptions it opens, whether it returns the unsubscribing cleanup, and
\* the path it subscribes to.
SnapshotEffectBody(ready, dbHandle, err) ==
  IF ~ready \/ ~dbHandle \/ Truthy(err)
    THEN [opened |-> 0, cleanup |-> FALSE, path |-> Null]
    ELSE [opened |-> 1, cleanup |-> TRUE, path |-> getProductCollectionPath(dataAppId)]

\* the cleanup of line 153 not calling unsubscribeSnapshot
AfterCleanup_NoUnsubscribe(n, hadCleanup) == n

\* the cleanup of the previous run, when that run returned one
AfterCleanup(n, hadCleanup) == IF hadCleanup THEN n - 1 ELSE n

\* ------------------------------------------------------------------------
\* Actions
\* ------------------------------------------------------------------------

\* The first commit (index.js lines 6-11): both effects run against the
\* initial state. Under React.StrictMode in a development build (strict) the
\* effects are run, cleaned up and run again before anything else happens.
Mount(strict, thr1, thr2) ==
  /\ phase = "init"
  /\ LET r1 == InitEffect(firebaseConfig, thr1)
         s1 == SnapshotEffectBody(isAuthReady, r1.dbSet, error)
         n1 == AfterCleanup(s1.opened, s1.cleanup)
         r2 == InitEffect(firebaseConfig, thr2)
         s2 == SnapshotEffectBody(isAuthReady, r1.dbSet \/ r2.dbSet, error)
     IN IF strict
          THEN /\ db' = (r1.dbSet \/ r2.dbSet)
               /\ authListening' = r2.listener
               /\ error' = IF r2.err # Null THEN r2.err ELSE r1.err
               /\ isAuthReady' = (r1.ready \/ r2.ready)
               /\ openSubs' = n1 + s2.opened
               /\ snapCleanup' = s2.cleanup
               /\ subPath' = IF s2.opened > 0 THEN s2.path ELSE s1.path
          ELSE /\ thr2 = "none"
               /\ db' = r1.dbSet
               /\ authListening' = r1.listener
               /\ error' = r1.err
               /\ isAuthReady' = r1.ready
               /\ openSubs' = s1.opened
               /\ snapCleanup' = s1.cleanup
               /\ subPath' = s1.path
  /\ phase' = "mounted"
  /\ effDeps' = <<isAuthReady, error>>
  /\ UNCHANGED <<injectedConfig, injectedAppId, firebaseConfig, appId, products, loading,
                 categories, activeCategory, pendingSignIn, authErrorLogged, lastSnapshot,
                 lateSetCalls>>

\* line 104 written as setIsAuthReady(!!user)
AuthStateChanged_ReadyIffUser(user) ==
  /\ authListening
  /\ IF user = Null
       THEN /\ pendingSignIn < MaxPending
            /\ pendingSignIn' = pendingSignIn + 1
            /\ isAuthReady' = FALSE
       ELSE /\ isAuthReady' = TRUE
            /\ UNCHANGED pendingSignIn
  /\ UNCHANGED <<injectedConfig, injectedAppId, firebaseConfig, appId, db, products,
                 loading, error, categories, activeCategory, phase, authListening,
                 authErrorLogged, openSubs, snapCleanup, effDeps, subPath, lastSnapshot,
                 lateSetCalls>>

\* The onAuthStateChanged callback is invoked (App.js lines 96-105) with a
\* user, or with null: then it suspends at await signInAnonymously(auth).
AuthStateChanged(user) ==
  /\ authListening
  /\ IF user = Null
       THEN /\ pendingSignIn < MaxPending
            /\ pendingSignIn' = pendingSignIn + 1
            /\ UNCHANGED isAuthReady
       ELSE /\ isAuthReady' = TRUE
            /\ UNCHANGED pendingSignIn
  /\ UNCHANGED <<injectedConfig, injectedAppId, firebaseConfig, appId, db, products,
                 loading, error, categories, activeCategory, phase, authListening,
                 authErrorLogged, openSubs, snapCleanup, effDeps, subPath, lastSnapshot,
                 lateSetCalls>>

\* the .catch of line 99 calling setError with the rejection
SignInSettles_RejectionSetsError(outcome) ==
  /\ pendingSignIn > 0
  /\ pendingSignIn' = pendingSignIn - 1
  /\ authErrorLogged' = (authErrorLogged \/ outcome = "rejected")
  /\ IF phase = "mounted"
       THEN /\ isAuthReady' = TRUE
            /\ error' = IF outcome = "rejected" THEN "Anonymous Auth Error: <e.message>" ELSE error
            /\ UNCHANGED lateSetCalls
       ELSE /\ lateSetCalls' = lateSetCalls + 1
            /\ UNCHANGED <<isAuthReady, error>>
  /\ UNCHANGED <<injectedConfig, injectedAppId, firebaseConfig, appId, db, products,
                 loading, categories, activeCategory, phase, authListening,
                 openSubs, snapCleanup, effDeps, subPath, lastSnapshot>>

\* signInAnonymously settles ("ok" or "rejected", the rejection handled by
\* the .catch of line 99) and the suspended callback resumes at line 104.
\* React drops the update of a component that is no longer mounted.
SignInSettles(outcome) ==
  /\ pendingSignIn > 0
  /\ pendingSignIn' = pendingSignIn - 1
  /\ authErrorLogged' = (authErrorLogged \/ outcome = "rejected")
  /\ IF phase = "mounted"
       THEN isAuthReady' = TRUE /\ UNCHANGED lateSetCalls
       ELSE lateSetCalls' = lateSetCalls + 1 /\ UNCHANGED isAuthReady
  /\ UNCHANGED <<injectedConfig, injectedAppId, firebaseConfig, appId, db, products,
                 loading, error, categories, activeCategory, phase, authListening,
                 openSubs, snapCleanup, effDeps, subPath, lastSnapshot>>

\* A commit in which isAuthReady or error differs from the last run of the
\* listener effect (isFallback never changes): cleanup, then the effect body.
SnapshotEffect ==
  /\ phase = "mounted"
  /\ effDeps # <<isAuthReady, error>>
  /\ LET s == SnapshotEffectBody(isAuthReady, db, error)
     IN /\ openSubs' = AfterCleanup(openSubs, snapCleanup) + s.opened
        /\ snapCleanup' = s.cleanup
        /\ subPath' = s.path
  /\ effDeps' = <<isAuthReady, error>>
  /\ UNCHANGED <<injectedConfig, injectedAppId, firebaseConfig, appId, db, products,
                 loading, error, isAuthReady, categories, activeCategory, phase,
                 authListening, pendingSignIn, authErrorLogged, lastSnapshot, lateSetCalls>>

\* the success callback returning early once loading is false, so that only
\* the first snapshot is applied
DeliverSnapshot_OnlyFirst(productList) ==
  /\ openSubs > 0
  /\ IF loading
       THEN /\ products' = AvailableProducts(productList)
            /\ categories' = UniqueCategories(productList)
       ELSE UNCHANGED <<products, categories>>
  /\ loading' = FALSE
  /\ lastSnapshot' = <<productList>>
  /\ UNCHANGED <<injectedConfig, injectedAppId, firebaseConfig, appId, db, error,
                 isAuthReady, activeCategory, phase, authListening, pendingSignIn,
                 authErrorLogged, openSubs, snapCleanup, effDeps, subPath, lateSetCalls>>

\* the success callback also calling setError(null)
DeliverSnapshot_ClearsError(productList) ==
  /\ openSubs > 0
  /\ products' = AvailableProducts(productList)
  /\ loading' = FALSE
  /\ error' = Null
  /\ categories' = UniqueCategories(productList)
  /\ lastSnapshot' = <<productList>>
  /\ UNCHANGED <<injectedConfig, injectedAppId, firebaseConfig, appId, db,
                 isAuthReady, activeCategory, phase, authListening, pendingSignIn,
                 authErrorLogged, openSubs, snapCleanup, effDeps, subPath, lateSetCalls>>

\* The success callback of onSnapshot, its try block running to the end
\* (App.js lines 130-139).
DeliverSnapshot(productList) ==
  /\ openSubs > 0
  /\ products' = AvailableProducts(productList)
  /\ loading' = FALSE
  /\ categories' = UniqueCategories(productList)
  /\ lastSnapshot' = <<productList>>
  /\ UNCHANGED <<injectedConfig, injectedAppId, firebaseConfig, appId, db, error,
                 isAuthReady, activeCategory, phase, authListening, pendingSignIn,
                 authErrorLogged, openSubs, snapCleanup, effDeps, subPath, lateSetCalls>>

\* The success callback of onSnapshot with doc.data() throwing inside the
\* map of line 130: the catch of lines 141-145.
SnapshotTransformThrows ==
  /\ openSubs > 0
  /\ error' = MsgFetchFailed
  /\ loading' = FALSE
  /\ UNCHANGED <<injectedConfig, injectedAppId, firebaseConfig, appId, db, products,
                 isAuthReady, categories, activeCategory, phase, authListening,
                 pendingSignIn, authErrorLogged, openSubs, snapCleanup, effDeps, subPath,
                 lastSnapshot, lateSetCalls>>

\* The error callback of onSnapshot (App.js lines 146-150).
SnapshotError ==
  /\ openSubs > 0
  /\ error' = MsgRealtime
  /\ loading' = FALSE
  /\ UNCHANGED <<injectedConfig, injectedAppId, firebaseConfig, appId, db, products,
                 isAuthReady, categories, activeCategory, phase, authListening,
                 pendingSignIn, authErrorLogged, openSubs, snapCleanup, effDeps, subPath,
                 lastSnapshot, lateSetCalls>>

\* A click on a button of the category filter (App.js lines 195-198, 291).
SelectCategory(cat) ==
  /\ phase = "mounted"
  /\ FilterShown
  /\ cat \in Range(categories)
  /\ activeCategory' = cat
  /\ UNCHANGED <<injectedConfig, injectedAppId, firebaseConfig, appId, db, products,
                 loading, error, isAuthReady, categories, phase, authListening,
                 pendingSignIn, authErrorLogged, openSubs, snapCleanup, effDeps, subPath,
                 lastSnapshot, lateSetCalls>>

\* The component is torn down: the cleanups of both effects run
\* (App.js lines 107 and 153).
Unmount ==
  /\ phase = "mounted"
  /\ phase' = "unmounted"
  /\ authListening' = FALSE
  /\ openSubs' = AfterCleanup(openSubs, snapCleanup)
  /\ snapCleanup' = FALSE
  /\ UNCHANGED <<injectedConfig, injectedAppId, firebaseConfig, appId, db, products,
                 loading, error, isAuthReady, categories, activeCategory, pendingSignIn,
                 authErrorLogged, effDeps, subPath, lastSnapshot, lateSetCalls>>

Next ==
  \/ \E strict \in BOOLEAN, thr1, thr2 \in ThrowPoints : Mount(strict, thr1, thr2)
  \/ \E user \in {Null, "user"} : AuthStateChanged(user)
  \/ \E outcome \in {"ok", "rejected"} : SignInSettles(outcome)
  \/ SnapshotEffect
  \/ \E productList \in Snapshots : DeliverSnapshot(productList)
  \/ SnapshotTransformThrows
  \/ SnapshotError
  \/ \E cat \in CategoryValues : SelectCategory(cat)
  \/ Unmount

Spec == Init /\ [][Next]_vars

\* ------------------------------------------------------------------------
\* The reducer on its own: the component mounted with the built-in
\* configuration, signed in and subscribed, holding the result of a
\* delivered list of ProductLists, with a category selected while an earlier
\* list was shown; the filter buttons are then clicked.
\* ------------------------------------------------------------------------

InitReducer ==
  /\ injectedConfig = Undefined
  /\ injectedAppId = Undefined
  /\ firebaseConfig = ResolveConfig(injectedConfig)
  /\ appId = ResolveAppId(injectedAppId)
  /\ db = TRUE
  /\ \E productList \in ProductLists :
       /\ products = AvailableProducts(productList)
       /\ categories = UniqueCategories(productList)
       /\ lastSnapshot = <<productList>>
  /\ loading = FALSE
  /\ error = Null
  /\ isAuthReady = TRUE
  /\ activeCategory \in {c \in CategoryValues : Truthy(c)}
  /\ phase = "mounted"
  /\ authListening = TRUE
  /\ pendingSignIn = 0
  /\ authErrorLogged = FALSE
  /\ openSubs = 1
  /\ snapCleanup = TRUE
  /\ effDeps = <<TRUE, Null>>
  /\ subPath = getProductCollectionPath(DEFAULT_APP_ID)
  /\ lastSnapshot # <<>>
  /\ lateSetCalls = 0

NextReducer == \E cat \in CategoryValues : SelectCategory(cat)

SpecReducer == InitReducer /\ [][NextReducer]_vars

\* ------------------------------------------------------------------------
\* Properties
\* ------------------------------------------------------------------------

\* the documents of the snapshot transformed last
LastDocs == IF lastSnapshot = <<>> THEN <<>> ELSE lastSnapshot[1]

NoDuplicates(s) == \A i, j \in DOMAIN s : i # j => s[i] # s[j]

\* C1: after every successful snapshot delivery the categories list has
\* "All" at index 0 and holds no entry twice.
C1_AllFirstNoDuplicates ==
  lastSnapshot # <<>> => (categories[1] = "All" /\ NoDuplicates(categories))

\* C2: after every successful snapshot delivery the categories are "All"
\* together with exactly the non-empty categories of the products of that
\* snapshot whose available flag is true.
C2_CategoriesOfAvailableOnly ==
  lastSnapshot # <<>> =>
    Range(categories) =
      {"All"} \cup {p.category : p \in {q \in Range(LastDocs) :
                                          q.available = JsTrue /\ q.category \notin {Undefined, ""}}}

\* C3: when initialization has failed (invalid configuration, or a throwing
\* initializeApp/getFirestore/getAuth) the rendered state is Error, not Loading.
C3_InitFailureRendersError ==
  (phase = "mounted" /\ error \in InitMessages) => RenderState = "Error"

\* C4: once the subscription has reported an error the error value stays
\* non-null and the rendered state is Error in every later state, whatever
\* deliveries and category selections follow; products delivered earlier are
\* not shown.
C4_SubscriptionErrorSticky ==
  /\ [](error \in SubscriptionMessages => RenderState = "Error")
  /\ [][(error \in SubscriptionMessages) => ((error' # Null) /\ (RenderState' = "Error"))]_vars

C4_Witness ==
  /\ error \in SubscriptionMessages
  /\ Len(products) > 0
  /\ RenderState = "Error"
  /\ openSubs = 0

\* C5: at most one collection subscription is opened and not yet
\* unsubscribed, in every reachable state.
C5_AtMostOneSubscription == openSubs <= 1

C5_Witness == openSubs = 1 /\ pendingSignIn > 0 /\ lastSnapshot # <<>>

\* C6: after the component is torn down no callback calls a state setter;
\* a callback suspended at signInAnonymously does not call setIsAuthReady.
C6_NoSetterAfterTeardown == phase = "unmounted" => lateSetCalls = 0

\* C7: once loading is false it stays false, and once isAuthReady is true it
\* stays true.
C7_Monotonic == [][(~loading => ~loading') /\ (isAuthReady => isAuthReady')]_vars

C7_Witness ==
  /\ ~loading
  /\ isAuthReady
  /\ pendingSignIn > 0
  /\ activeCategory # "All"

\* C8: the rendered state is one of Loading, Error, Empty, Populated, chosen
\* by precedence: Loading whenever loading is true; otherwise Error whenever
\* error is non-null; otherwise Empty exactly when no product of the last
\* snapshot is available; otherwise Populated.
C8_RenderPrecedence ==
  /\ RenderState \in {"Loading", "Error", "Empty", "Populated"}
  /\ loading => RenderState = "Loading"
  /\ (~loading /\ error # Null) => RenderState = "Error"
  /\ (~loading /\ error = Null) =>
       /\ lastSnapshot # <<>>
       /\ RenderState = "Empty" <=> (\A p \in Range(LastDocs) : p.available # JsTrue)
       /\ RenderState = "Populated" <=> (\E p \in Range(LastDocs) : p.available = JsTrue)

C8_Witness == loading /\ error # Null /\ phase = "mounted"

\* C9: a rejected signInAnonymously leaves error as it is and sets
\* isAuthReady, and with the effects run the collection subscription is open
\* as after a successful sign-in.
C9_AuthFailureNotSurfaced ==
  /\ [][(pendingSignIn' < pendingSignIn /\ authErrorLogged') =>
          (error' = error /\ (phase = "mounted" => isAuthReady'))]_vars
  /\ []((authErrorLogged /\ phase = "mounted" /\ error = Null
           /\ effDeps = <<isAuthReady, error>>) => (isAuthReady /\ openSubs = 1))

C9_Witness ==
  /\ authErrorLogged
  /\ phase = "mounted"
  /\ error = Null
  /\ openSubs = 1
  /\ lastSnapshot # <<>>

\* C10: every product in the grouped map has a true available flag.
C10_GroupedAvailable ==
  \A k \in DOMAIN productsGroupedByCategory :
    \A i \in DOMAIN productsGroupedByCategory[k] :
      productsGroupedByCategory[k][i].available = JsTrue

C10_Witness ==
  /\ activeCategory = "Starters"
  /\ \E k \in DOMAIN productsGroupedByCategory : Len(productsGroupedByCategory[k]) > 0
  /\ \E p \in Range(LastDocs) : p.available # JsTrue

\* the key of the claim: the category, "Uncategorized" when missing or empty
GroupKeyOf(p) == IF p.category \in {Undefined, ""} THEN "Uncategorized" ELSE p.category

PassesActiveFilter(p) == activeCategory = "All" \/ p.category = activeCategory

\* the places <<key, index>> of the grouped map
GroupedPlaces ==
  UNION {{<<k, j>> : j \in DOMAIN productsGroupedByCategory[k]} :
           k \in DOMAIN productsGroupedByCategory}

\* the index of a product in the products list
PositionOf(p) == CHOOSE i \in DOMAIN products : products[i] = p

C12_ConfigResolution ==
  /\ [](/\ injectedConfig \in {Undefined, "", "{bad"} =>
             (firebaseConfig = FALLBACK_FIREBASE_CONFIG /\ isFallback)
        /\ injectedConfig = "null" => (firebaseConfig.kind = "null" /\ ~isFallback)
        /\ injectedConfig = "{}" =>
             (firebaseConfig = [kind |-> "parsed", projectId |-> Undefined] /\ ~isFallback)
        /\ injectedConfig = "{\"projectId\":\"demo\"}" =>
             (firebaseConfig = [kind |-> "parsed", projectId |-> "demo"] /\ ~isFallback)
        /\ injectedConfig \in ConfigBlobs)
  /\ [][firebaseConfig' = firebaseConfig /\ injectedConfig' = injectedConfig]_vars

C12_Witness ==
  /\ injectedConfig = "{bad"
  /\ isFallback
  /\ phase = "mounted"
  /\ lastSnapshot # <<>>

C14_NoAvailableIsEmpty ==
  (lastSnapshot # <<>> /\ \A p \in Range(LastDocs) : p.available # JsTrue) =>
    /\ DOMAIN productsGroupedByCategory = {}
    /\ (~loading /\ error = Null) => RenderState = "Empty"

C14_Witness ==
  /\ Len(LastDocs) = 2
  /\ \A p \in Range(LastDocs) : p.available # JsTrue
  /\ activeCategory = "Ales"
  /\ error = Null
  /\ RenderState = "Empty"

\* C15: after any sequence of successful deliveries the products held are
\* exactly the available products of the last snapshot, in its order, and the
\* categories are those computed from the last snapshot; nothing of an
\* earlier snapshot remains.
C15_LastSnapshotWins ==
  lastSnapshot # <<>> =>
    /\ products = SelectSeq(LastDocs, LAMBDA p : p.available = JsTrue)
    /\ categories = UniqueCategories(LastDocs)
    /\ Range(categories) \subseteq {"All"} \cup {p.category : p \in Range(LastDocs)}

\* a category selected from an earlier snapshot is gone from the last one
C15_Witness ==
  /\ lastSnapshot # <<>>
  /\ activeCategory = "Starters"
  /\ "Starters" \notin Range(categories)
  /\ Len(products) = 2

\* C16: a subscription is opened only in a state where isAuthReady is true,
\* the database handle exists and error is null; none is open before
\* readiness; and once the listener effect has run with a non-null error the
\* earlier subscription is released and none is open from then on.
C16_SubscriptionGuard ==
  /\ [][openSubs' > openSubs => (isAuthReady /\ db /\ error = Null)]_vars
  /\ [](openSubs > 0 => (isAuthReady /\ db))
  /\ [](effDeps[2] # Null => openSubs = 0)
  /\ [][effDeps[2] # Null => effDeps'[2] # Null]_vars

C16_Witness ==
  /\ error \in SubscriptionMessages
  /\ effDeps = <<isAuthReady, error>>
  /\ lastSnapshot # <<>>
  /\ openSubs = 0
  /\ phase = "mounted"

\* C17: the active category is "All" or an entry of the current categories
\* list, in every reachable state.
C17_ActiveCategoryOffered ==
  activeCategory = "All" \/ activeCategory \in Range(categories)

\* C18: whenever the rendered state is Populated the grouped map holds at
\* least one product.
C18_PopulatedShowsProducts ==
  RenderState = "Populated" =>
    \E k \in DOMAIN productsGroupedByCategory : Len(productsGroupedByCategory[k]) > 0

====
